---- MODULE Spec2Model ----
(***************************************************************************)
(* Verification model of the MonteCarloSimulator library:                  *)
(*   - the online aggregators (WelfordAggregator, MeanAggregator),         *)
(*   - the execution policies (Sequential, Parallel),                      *)
(*   - the SimulationEngine (run / simulate / set_seed).                   *)
(*   - confidence_interval, and the MonteCarloSimulator class.             *)
(*                                                                         *)
(* A C++ double is modelled as an exact rational <<n, d>> in lowest terms  *)
(* with d > 0; d = 0 encodes the IEEE specials: <<0,0>> is NaN and         *)
(* <<1,0>>, <<-1,0>> are +inf, -inf.  Rounding of finite results is not    *)
(* modelled: every statement about "rounding" or "tolerance" is checked    *)
(* as exact equality of rationals.                                         *)
(***************************************************************************)
EXTENDS Integers, Sequences, FiniteSets, TLC

(***************************************************************************)
(* Bounds of the model.                                                    *)
(***************************************************************************)
\* total number of samples held by the aggregators of the algebra spec
MaxTotal == 5
\* largest iteration count passed to run / simulate
MaxIter == 3
\* largest worker count of a Parallel policy
MaxWorkers == 3
\* a std::uint64_t seed is two 32-bit words in the code; the model keeps
\* WordBits bits of each word, so seeds wrap modulo 2^(2*WordBits)
WordBits == 2

(***************************************************************************)
(* double arithmetic                                                       *)
(***************************************************************************)
RECURSIVE Gcd(_, _)
Gcd(a, b) == IF b = 0 THEN a ELSE Gcd(b, a % b)

AbsInt(a) == IF a < 0 THEN -a ELSE a

SgnInt(a) == IF a < 0 THEN -1 ELSE IF a = 0 THEN 0 ELSE 1

NaN == <<0, 0>>

Zero == <<0, 1>>

One == <<1, 1>>

IsNaN(x) == x[2] = 0 /\ x[1] = 0

IsInf(x) == x[2] = 0 /\ x[1] # 0

IsFinite(x) == x[2] > 0

\* lowest terms, positive denominator
Norm(x) ==
    LET g == Gcd(AbsInt(x[1]), AbsInt(x[2]))
        s == IF x[2] < 0 THEN -1 ELSE 1
    IN  IF x[2] = 0 THEN <<SgnInt(x[1]), 0>>
        ELSE <<(s * x[1]) \div g, (s * x[2]) \div g>>

\* static_cast<double>(k) of an unsigned integer
ToDouble(k) == <<k, 1>>

RNeg(x) == <<-x[1], x[2]>>

RAdd(x, y) ==
    IF IsNaN(x) \/ IsNaN(y) THEN NaN
    ELSE IF IsInf(x) THEN (IF IsInf(y) /\ y # x THEN NaN ELSE x)
    ELSE IF IsInf(y) THEN y
    ELSE Norm(<<x[1] * y[2] + y[1] * x[2], x[2] * y[2]>>)

RSub(x, y) == RAdd(x, RNeg(y))

RMul(x, y) ==
    IF IsNaN(x) \/ IsNaN(y) THEN NaN
    ELSE IF IsInf(x) \/ IsInf(y)
         THEN (IF x[1] = 0 \/ y[1] = 0 THEN NaN
               ELSE <<SgnInt(x[1]) * SgnInt(y[1]), 0>>)
    ELSE Norm(<<x[1] * y[1], x[2] * y[2]>>)

RDiv(x, y) ==
    IF IsNaN(x) \/ IsNaN(y) THEN NaN
    ELSE IF IsInf(y) THEN (IF IsInf(x) THEN NaN ELSE Zero)
    ELSE IF IsInf(x) THEN <<x[1] * (IF y[1] < 0 THEN -1 ELSE 1), 0>>
    ELSE IF y[1] = 0 THEN (IF x[1] = 0 THEN NaN ELSE <<SgnInt(x[1]), 0>>)
    ELSE Norm(<<x[1] * y[2], x[2] * y[1]>>)

\* x < y on doubles; every comparison with NaN is false
RLess(x, y) ==
    IF IsNaN(x) \/ IsNaN(y) THEN FALSE
    ELSE IF IsInf(x) THEN x[1] < 0 /\ y # x
    ELSE IF IsInf(y) THEN y[1] > 0
    ELSE x[1] * y[2] < y[1] * x[2]

\* largest r with r*r <= k
RECURSIVE ISqrtFrom(_, _)
ISqrtFrom(k, r) == IF (r + 1) * (r + 1) > k THEN r ELSE ISqrtFrom(k, r + 1)

ISqrt(k) == ISqrtFrom(k, 0)

IsSquare(k) == ISqrt(k) * ISqrt(k) = k

\* resolution of std::sqrt results that are not rational
SqrtScale == 100

\* std::sqrt: exact where the root is rational, else truncated to 1/SqrtScale
Sqrt(x) ==
    IF IsNaN(x) THEN NaN
    ELSE IF IsInf(x) THEN (IF x[1] > 0 THEN x ELSE NaN)
    ELSE IF x[1] < 0 THEN NaN
    ELSE IF IsSquare(x[1]) /\ IsSquare(x[2]) THEN <<ISqrt(x[1]), ISqrt(x[2])>>
    ELSE Norm(<<ISqrt((x[1] * SqrtScale * SqrtScale) \div x[2]), SqrtScale>>)

(***************************************************************************)
(* Aggregators.  One record shape serves both classes: a WelfordAggregator *)
(* uses count, mean, m2; a MeanAggregator uses count, sum, sum_sq.         *)
(***************************************************************************)
AggKinds == {"welford", "mean"}

\* a default-constructed aggregator of the given class
NewAgg(kind) ==
    [kind |-> kind, count |-> 0, mean |-> Zero, m2 |-> Zero,
     sum |-> Zero, sum_sq |-> Zero]

\* variant of add that accumulates delta^2 instead of delta * delta2
Welford_add_naiveM2(a, value) ==
    LET count1 == a.count + 1
        delta  == RSub(value, a.mean)
        mean1  == RAdd(a.mean, RDiv(delta, ToDouble(count1)))
    IN  [a EXCEPT !.count = count1,
                  !.mean = mean1,
                  !.m2 = RAdd(a.m2, RMul(delta, delta))]

\* variant of add in which delta2 is taken from the new mean to the value
Welford_add_flippedDelta2(a, value) ==
    LET count1 == a.count + 1
        delta  == RSub(value, a.mean)
        mean1  == RAdd(a.mean, RDiv(delta, ToDouble(count1)))
        delta2 == RSub(mean1, value)
    IN  [a EXCEPT !.count = count1,
                  !.mean = mean1,
                  !.m2 = RAdd(a.m2, RMul(delta, delta2))]

\* WelfordAggregator::add
Welford_add(a, value) ==
    LET count1 == a.count + 1
        delta  == RSub(value, a.mean)
        mean1  == RAdd(a.mean, RDiv(delta, ToDouble(count1)))
        delta2 == RSub(value, mean1)
    IN  [a EXCEPT !.count = count1,
                  !.mean = mean1,
                  !.m2 = RAdd(a.m2, RMul(delta, delta2))]

\* WelfordAggregator::result
Welford_result(a) == a.mean

\* WelfordAggregator::variance
Welford_variance(a) ==
    IF a.count > 1 THEN RDiv(a.m2, ToDouble(a.count - 1)) ELSE Zero

\* WelfordAggregator::std_error
Welford_std_error(a) ==
    IF a.count > 0 THEN Sqrt(RDiv(Welford_variance(a), ToDouble(a.count)))
    ELSE Zero

\* variant of merge that omits the between-groups term delta^2 * n1*n2/total
Welford_merge_noBetween(a, other) ==
    IF other.count = 0 THEN a
    ELSE IF a.count = 0
         THEN [a EXCEPT !.mean = other.mean, !.m2 = other.m2,
                        !.count = other.count]
    ELSE LET total == ToDouble(a.count + other.count)
             delta == RSub(other.mean, a.mean)
         IN  [a EXCEPT
                !.mean = RAdd(a.mean,
                              RMul(delta, RDiv(ToDouble(other.count), total))),
                !.m2 = RAdd(a.m2, other.m2),
                !.count = a.count + other.count]

\* variant of merge that shifts the mean by delta / total, as add does
Welford_merge_unweighted(a, other) ==
    IF other.count = 0 THEN a
    ELSE IF a.count = 0
         THEN [a EXCEPT !.mean = other.mean, !.m2 = other.m2,
                        !.count = other.count]
    ELSE LET total == ToDouble(a.count + other.count)
             delta == RSub(other.mean, a.mean)
         IN  [a EXCEPT
                !.mean = RAdd(a.mean, RDiv(delta, total)),
                !.m2 = RAdd(a.m2,
                            RAdd(other.m2,
                                 RMul(RMul(delta, delta),
                                      RDiv(RMul(ToDouble(a.count),
                                                ToDouble(other.count)),
                                           total)))),
                !.count = a.count + other.count]

\* variant of merge that copies mean and count into an empty aggregator,
\* but not m2
Welford_merge_copyWithoutM2(a, other) ==
    IF other.count = 0 THEN a
    ELSE IF a.count = 0
         THEN [a EXCEPT !.mean = other.mean, !.count = other.count]
    ELSE LET total == ToDouble(a.count + other.count)
             delta == RSub(other.mean, a.mean)
         IN  [a EXCEPT
                !.mean = RAdd(a.mean,
                              RMul(delta, RDiv(ToDouble(other.count), total))),
                !.m2 = RAdd(a.m2,
                            RAdd(other.m2,
                                 RMul(RMul(delta, delta),
                                      RDiv(RMul(ToDouble(a.count),
                                                ToDouble(other.count)),
                                           total)))),
                !.count = a.count + other.count]

\* variant of merge without the two early returns for empty aggregators
Welford_merge_noEmptyChecks(a, other) ==
    LET total == ToDouble(a.count + other.count)
        delta == RSub(other.mean, a.mean)
    IN  [a EXCEPT
           !.mean = RAdd(a.mean,
                         RMul(delta, RDiv(ToDouble(other.count), total))),
           !.m2 = RAdd(a.m2,
                       RAdd(other.m2,
                            RMul(RMul(delta, delta),
                                 RDiv(RMul(ToDouble(a.count),
                                           ToDouble(other.count)),
                                      total)))),
           !.count = a.count + other.count]

\* variant of merge that takes over the other aggregator's count
Welford_merge_countOfOther(a, other) ==
    IF other.count = 0 THEN a
    ELSE IF a.count = 0
         THEN [a EXCEPT !.mean = other.mean, !.m2 = other.m2,
                        !.count = other.count]
    ELSE LET total == ToDouble(a.count + other.count)
             delta == RSub(other.mean, a.mean)
         IN  [a EXCEPT
                !.mean = RAdd(a.mean,
                              RMul(delta, RDiv(ToDouble(other.count), total))),
                !.m2 = RAdd(a.m2,
                            RAdd(other.m2,
                                 RMul(RMul(delta, delta),
                                      RDiv(RMul(ToDouble(a.count),
                                                ToDouble(other.count)),
                                           total)))),
                !.count = other.count]

\* WelfordAggregator::merge (Chan's parallel variance algorithm)
Welford_merge(a, other) ==
    IF other.count = 0 THEN a
    ELSE IF a.count = 0
         THEN [a EXCEPT !.mean = other.mean, !.m2 = other.m2,
                        !.count = other.count]
    ELSE LET total == ToDouble(a.count + other.count)
             delta == RSub(other.mean, a.mean)
         IN  [a EXCEPT
                !.mean = RAdd(a.mean,
                              RMul(delta, RDiv(ToDouble(other.count), total))),
                !.m2 = RAdd(a.m2,
                            RAdd(other.m2,
                                 RMul(RMul(delta, delta),
                                      RDiv(RMul(ToDouble(a.count),
                                                ToDouble(other.count)),
                                           total)))),
                !.count = a.count + other.count]

\* variant of reset that leaves mean_ as it is
Welford_reset_keepsMean(a) == [a EXCEPT !.m2 = Zero, !.count = 0]

\* WelfordAggregator::reset
Welford_reset(a) == [a EXCEPT !.mean = Zero, !.m2 = Zero, !.count = 0]

\* MeanAggregator::add
Mean_add(a, value) ==
    [a EXCEPT !.sum = RAdd(a.sum, value),
              !.sum_sq = RAdd(a.sum_sq, RMul(value, value)),
              !.count = a.count + 1]

\* MeanAggregator::result
Mean_result(a) ==
    IF a.count > 0 THEN RDiv(a.sum, ToDouble(a.count)) ELSE Zero

\* MeanAggregator::variance
Mean_variance(a) ==
    IF a.count < 2 THEN Zero
    ELSE LET mean == Mean_result(a)
         IN  RDiv(RMul(RSub(RDiv(a.sum_sq, ToDouble(a.count)),
                            RMul(mean, mean)),
                       ToDouble(a.count)),
                  ToDouble(a.count - 1))

\* MeanAggregator::std_error
Mean_std_error(a) == Sqrt(RDiv(Mean_variance(a), ToDouble(a.count)))

\* MeanAggregator::reset
Mean_reset(a) == [a EXCEPT !.sum = Zero, !.sum_sq = Zero, !.count = 0]

\* the member functions as the templates resolve them for an aggregator type
AggAdd(a, value) ==
    IF a.kind = "welford" THEN Welford_add(a, value) ELSE Mean_add(a, value)

AggResult(a) ==
    IF a.kind = "welford" THEN Welford_result(a) ELSE Mean_result(a)

AggVariance(a) ==
    IF a.kind = "welford" THEN Welford_variance(a) ELSE Mean_variance(a)

AggStdError(a) ==
    IF a.kind = "welford" THEN Welford_std_error(a) ELSE Mean_std_error(a)

AggReset(a) ==
    IF a.kind = "welford" THEN Welford_reset(a) ELSE Mean_reset(a)

\* requires { agg.merge(local_agg); }
HasMerge(kind) == kind = "welford"

\* an aggregator of the given class fed the values of xs in order
RECURSIVE Aggregate(_, _)
Aggregate(kind, xs) ==
    IF xs = <<>> THEN NewAgg(kind)
    ELSE AggAdd(Aggregate(kind, SubSeq(xs, 1, Len(xs) - 1)), xs[Len(xs)])

\* (count, mean, variance) as the accessors report them
Stats(a) == <<a.count, AggResult(a), AggVariance(a)>>

(***************************************************************************)
(* Generators, models and transforms.                                      *)
(***************************************************************************)
WordMod == 2 ^ WordBits

SeedMod == WordMod * WordMod

\* make_rng: a generator seeded from the seed_seq {lo(seed), hi(seed),
\* lo(stream_id), hi(stream_id)}; pos counts the values drawn so far
make_rng(seed, stream_id) ==
    [seq |-> <<seed % WordMod, (seed \div WordMod) % WordMod,
               stream_id % WordMod, (stream_id \div WordMod) % WordMod>>,
     pos |-> 0]

\* DefaultRngFactory::operator()
DefaultRngFactory(seed) == make_rng(seed, 0)

\* number of distinct values a generator yields in the model
DrawMod == 4

\* the value a generator yields next: a fixed function of its seeding
\* sequence and of its position (stands for std::mt19937_64::operator())
Draw(rng) ==
    (rng.seq[1] + 3 * rng.seq[2] + 2 * rng.seq[3] + rng.seq[4]
       + rng.pos * (1 + 2 * rng.seq[1])) % DrawMod

Advance(rng) == [rng EXCEPT !.pos = rng.pos + 1]

ModelKinds == {"ConstantOne", "Uniform01", "Faulty"}

\* one trial of the model: [ok, value, rng].  ConstantOneModel ignores the
\* generator; Uniform01Model maps one draw into [0, 1); the Faulty model
\* does the same but throws when the draw is 0.
invoke_model(m, rng) ==
    IF m = "ConstantOne" THEN [ok |-> TRUE, value |-> One, rng |-> rng]
    ELSE [ok |-> ~(m = "Faulty" /\ Draw(rng) = 0),
          value |-> Norm(<<Draw(rng), DrawMod>>),
          rng |-> Advance(rng)]

TransformKinds == {"Identity", "LinearScale"}

\* transform::Identity
Identity(x) == x

\* transform::LinearScale(a, b)
LinearScale(a, b, x) == RAdd(RMul(a, x), b)

\* the engine's transform_: Identity{} or LinearScale(4.0, 0.0)
ApplyTransform(tr, x) ==
    IF tr = "Identity" THEN Identity(x) ELSE LinearScale(<<4, 1>>, Zero, x)

\* variant of wrapped_model that hands on the raw sample
wrapped_model_noTransform(m, tr, rng) == invoke_model(m, rng)

\* wrapped_model of SimulationEngine::run: transform_(invoke_model(rng))
wrapped_model(m, tr, rng) ==
    LET r == invoke_model(m, rng)
    IN  [r EXCEPT !.value = ApplyTransform(tr, r.value)]

\* Parallel::Parallel: hw is what std::thread::hardware_concurrency() returns
ParallelCtor(num_threads, hw) == IF num_threads > 0 THEN num_threads ELSE hw

\* variant of thread_iters that hands the remainder to nobody
thread_iters_truncating(iterations, W, t) == iterations \div W

\* thread_iters of worker t in Parallel::run
thread_iters(iterations, W, t) ==
    (iterations \div W) + (IF t < iterations % W THEN 1 ELSE 0)

\* seed handed to worker t's rng_factory: seed + static_cast<uint64_t>(t)
WorkerSeed(seed, t) == (seed + t) % SeedMod

(***************************************************************************)
(* State.                                                                  *)
(***************************************************************************)
VARIABLES
    \* --- aggregators used on their own (SpecAgg) ---
    ag,         \* ag[i]: the aggregator objects, i in Slots
    hist,       \* hist[i]: the samples ag[i] stands for, in order (history)
    prov,       \* prov[i]: how ag[i] was built since it was last empty, or
                \* what it held when reset emptied it
    split,      \* split[i]: at the last merge into ag[i], the samples it held
    \* --- the partition loop on its own (SpecPart) ---
    part,       \* [iterations, W, t, chunks]: the thread-creation loop
    \* --- SimulationEngine object ---
    model_,     \* the model
    policy_,    \* [kind, requested, num_threads_]: the execution policy
    aggKind,    \* the Aggregator template argument
    transform_, \* the transform
    base_seed_, \* the configured base seed
    \* --- the caller and the call in progress ---
    op,         \* [name, iterations, seed]: the call in progress (or the last)
    pc,         \* where the calling thread is
    outcome,    \* how the call ended: pending, returned, threw, terminated, crashed
    result,     \* the Result returned by the last call that returned one
    old_seed,   \* simulate's local old_seed
    runSeed,    \* the seed argument run hands to policy_.run
    agg,        \* run's local Aggregator agg (the destination of the policy)
    \* --- Sequential::run ---
    rng,        \* its generator
    i,          \* its loop counter
    \* --- Parallel::run ---
    local_aggs, \* local_aggs[w]
    thr,        \* thr[w] = [st, i, iters, rng]: thread w and its captures
    t,          \* loop counter of the thread-creation loop
    joined,     \* number of threads joined so far
    merged,     \* number of local aggregators merged so far
    \* --- history ---
    added,      \* added[w]: the values worker w has added in this run, in order
    failure,    \* TRUE once a trial of the call in progress has thrown
    entrySeed,  \* base_seed_ at the moment the call in progress was made
    prev,       \* the previous call of run or simulate that returned a Result
    \* --- environment ---
    durations,  \* the values end - start of steady_clock can take for a call
    \* --- confidence_interval on its own (SpecCI) ---
    ci,         \* [st, r, level, out]: the arguments and the returned interval
    \* --- MonteCarloSimulator (SpecSim) ---
    sim,        \* the simulator object and its call in progress
    \* --- a policy called directly (SpecPolicy) ---
    held,       \* the samples the caller's aggregator held when run was called
    \* --- two threads calling one engine (SpecConc) ---
    calls,      \* [base_seed_, entry, call]: the shared member and each call
    \* --- the seeding of two workers (SpecSeeding) ---
    seeding     \* [st, s, t, s2, t2, rng, rng2]: two workers and their generators

aggVars == <<ag, hist, prov, split>>

engineVars == <<model_, policy_, aggKind, transform_>>

envVars == <<durations>>

\* the state of the specifications that stand beside the engine
otherVars == <<ci, sim, held, calls, seeding>>

\* the specifications about seeds that stand beside the engine
seedVars == <<calls, seeding>>

callVars == <<op, outcome, result, old_seed, entrySeed, prev>>

seqVars == <<rng, i>>

parVars == <<local_aggs, thr, t, joined, merged>>

mainVars == <<model_, policy_, aggKind, transform_, base_seed_, op, pc,
              outcome, result, old_seed, runSeed, agg, rng, i, local_aggs, thr,
              t, joined, merged, added, failure, entrySeed, prev, durations>>

vars == <<ag, hist, prov, split, part, model_, policy_, aggKind, transform_,
          base_seed_, op, pc, outcome, result, old_seed, runSeed, agg,
          rng, i, local_aggs, thr, t, joined, merged, added, failure,
          entrySeed, prev, durations, ci, sim, held,
          calls, seeding>>

\* Result{}: every field value-initialised
NoResult ==
    [estimate |-> Zero, variance |-> Zero, standard_error |-> Zero,
     iterations |-> 0, elapsed_ms |-> Zero]

NoRng == [seq |-> <<0, 0, 0, 0>>, pos |-> 0]

NoOp == [name |-> "none", iterations |-> 0, seed |-> 0]

NoPrev ==
    [valid |-> FALSE, seed |-> 0, iterations |-> 0, estimate |-> Zero,
     variance |-> Zero, standard_error |-> Zero, elapsed_ms |-> Zero]

\* the parts of the state a specification does not use stay at these values
AggUnused ==
    /\ ag = [s \in {} |-> 0]
    /\ hist = [s \in {} |-> 0]
    /\ prov = [s \in {} |-> 0]
    /\ split = [s \in {} |-> 0]

PartUnused == part = [iterations |-> 0, W |-> 1, t |-> 0, chunks |-> <<>>]

\* no call in progress on a shared engine
NoCalls == [base_seed_ |-> 0, entry |-> 0, call |-> <<>>]

\* no workers being compared
NoSeeding ==
    [st |-> "unused", s |-> 0, t |-> 0, s2 |-> 0, t2 |-> 0,
     rng |-> NoRng, rng2 |-> NoRng]

SeedUnused == calls = NoCalls /\ seeding = NoSeeding

MainUnused ==
    /\ model_ = "ConstantOne"
    /\ policy_ = [kind |-> "seq", requested |-> 0, num_threads_ |-> 0]
    /\ aggKind = "welford"
    /\ transform_ = "Identity"
    /\ base_seed_ = 0
    /\ op = NoOp
    /\ pc = "unused"
    /\ outcome = "none"
    /\ result = NoResult
    /\ old_seed = 0
    /\ runSeed = 0
    /\ agg = NewAgg("welford")
    /\ rng = NoRng
    /\ i = 0
    /\ local_aggs = [w \in {} |-> 0]
    /\ thr = [w \in {} |-> 0]
    /\ t = 0
    /\ joined = 0
    /\ merged = 0
    /\ added = [w \in {} |-> 0]
    /\ failure = FALSE
    /\ entrySeed = 0
    /\ prev = NoPrev
    /\ durations = {Zero}
    /\ held = <<>>

NoCI == [st |-> "unused", r |-> NoResult, level |-> Zero, out |-> <<>>]

CIUnused == ci = NoCI

NoSim ==
    [pc |-> "unused", num_simulations_ |-> 0, num_threads_ |-> 1, hw |-> 0,
     parallel |-> FALSE, raw |-> FALSE, results |-> <<>>, futures |-> <<>>,
     k |-> 0, num_samples |-> 0, returned |-> FALSE]

SimUnused == sim = NoSim

(***************************************************************************)
(* SpecAgg: aggregators driven directly through their public members.      *)
(* Slots 1 and 2 hold WelfordAggregators; slot 3 holds an aggregator of    *)
(* either class.                                                           *)
(***************************************************************************)
Slots == 1 .. 3

\* the sample values fed to add
Vals == {<<1, 1>>, <<5, 2>>}

TotalHeld(h) == Len(h[1]) + Len(h[2]) + Len(h[3])

\* prov of an aggregator that holds nothing: "reset" when reset emptied it
\* of samples it all got from add, "resetMerged" when some had come by merge
EmptyProv == {"empty", "reset", "resetMerged"}

\* prov of an aggregator that got all it holds from add
AddProv == EmptyProv \cup {"adds"}

InitAgg ==
    /\ \E k \in AggKinds :
          ag = [x \in Slots |-> IF x = 3 THEN NewAgg(k) ELSE NewAgg("welford")]
    /\ hist = [x \in Slots |-> <<>>]
    /\ prov = [x \in Slots |-> "empty"]
    /\ split = [x \in Slots |-> 0]
    /\ PartUnused
    /\ MainUnused
    /\ SeedUnused
    /\ CIUnused
    /\ SimUnused

\* ag[x].add(v)
Add(x, v) ==
    /\ TotalHeld(hist) < MaxTotal
    /\ ag' = [ag EXCEPT ![x] = AggAdd(ag[x], v)]
    /\ hist' = [hist EXCEPT ![x] = Append(hist[x], v)]
    /\ prov' = [prov EXCEPT ![x] = IF prov[x] \in AddProv
                                   THEN "adds" ELSE "mixed"]
    /\ UNCHANGED <<split, part, mainVars, otherVars>>

\* ag[x].merge(ag[y]); only WelfordAggregator has the member
Merge(x, y) ==
    /\ x # y
    /\ HasMerge(ag[x].kind) /\ HasMerge(ag[y].kind)
    /\ TotalHeld(hist) + Len(hist[y]) <= MaxTotal
    /\ ag' = [ag EXCEPT ![x] = Welford_merge(ag[x], ag[y])]
    /\ hist' = [hist EXCEPT ![x] = hist[x] \o hist[y]]
    /\ prov' = [prov EXCEPT ![x] =
                  IF prov[x] \in AddProv /\ prov[y] \in AddProv
                  THEN "merged" ELSE "mixed"]
    /\ split' = [split EXCEPT ![x] = Len(hist[x])]
    /\ UNCHANGED <<part, mainVars, otherVars>>

\* ag[x].reset()
Reset(x) ==
    /\ ag' = [ag EXCEPT ![x] = AggReset(ag[x])]
    /\ hist' = [hist EXCEPT ![x] = <<>>]
    /\ prov' = [prov EXCEPT ![x] =
                  IF hist[x] = <<>>
                  THEN (IF prov[x] \in EmptyProv THEN prov[x] ELSE "empty")
                  ELSE IF prov[x] = "adds" THEN "reset" ELSE "resetMerged"]
    /\ split' = [split EXCEPT ![x] = 0]
    /\ UNCHANGED <<part, mainVars, otherVars>>

NextAgg ==
    \/ \E x \in Slots, v \in Vals : Add(x, v)
    \/ \E x \in Slots, y \in Slots : Merge(x, y)
    \/ \E x \in Slots : Reset(x)

SpecAgg == InitAgg /\ [][NextAgg]_vars

(***************************************************************************)
(* Properties of the aggregators.                                          *)
(***************************************************************************)
BuiltByAdd(x) == prov[x] \in AddProv

\* C1: an aggregator obtained by merging an aggregator built by add from a
\* sequence A with one built by add from B reports the same count, mean and
\* variance as one aggregator fed A followed by B.
C1_MergeEqualsConcat ==
    \A x \in Slots :
        prov[x] = "merged" =>
            Stats(ag[x]) = Stats(Aggregate("welford", hist[x]))

\* a merge of two non-empty add-built parts with a non-zero variance
C1_Witness ==
    \E x \in Slots :
        /\ prov[x] = "merged"
        /\ split[x] >= 1
        /\ Len(hist[x]) - split[x] >= 2
        /\ AggVariance(ag[x]) # Zero

AllWelford == \A x \in Slots : ag[x].kind = "welford"

\* C2: merge is commutative and associative on aggregators built by add:
\* a.merge(b) and b.merge(a) report the same (count, mean, variance), and so
\* do (a merge b) merge c and a merge (b merge c).
C2_MergeCommAssoc ==
    (AllWelford /\ \A x \in Slots : BuiltByAdd(x)) =>
        /\ \A x, y \in Slots :
              Stats(Welford_merge(ag[x], ag[y])) = Stats(Welford_merge(ag[y], ag[x]))
        /\ Stats(Welford_merge(Welford_merge(ag[1], ag[2]), ag[3]))
             = Stats(Welford_merge(ag[1], Welford_merge(ag[2], ag[3])))

\* three non-empty add-built aggregators of different sizes and means
C2_Witness ==
    /\ AllWelford
    /\ \A x \in Slots : prov[x] = "adds"
    /\ ag[1].count = 2 /\ ag[2].count = 2 /\ ag[3].count = 1
    /\ ag[1].mean # ag[2].mean /\ ag[2].mean # ag[3].mean
    /\ ag[1].m2 # Zero

\* sum of squared deviations of xs from their mean (M2)
RECURSIVE SumSeq(_)
SumSeq(xs) == IF xs = <<>> THEN Zero ELSE RAdd(xs[1], SumSeq(Tail(xs)))

MeanOf(xs) == RDiv(SumSeq(xs), ToDouble(Len(xs)))

RECURSIVE SumSqDev(_, _)
SumSqDev(xs, m) ==
    IF xs = <<>> THEN Zero
    ELSE RAdd(RMul(RSub(xs[1], m), RSub(xs[1], m)), SumSqDev(Tail(xs), m))

M2Of(xs) == SumSqDev(xs, MeanOf(xs))

\* C8: an aggregator of either class holding fewer than 2 samples reports
\* variance() = 0 and std_error() = 0, never NaN, and one holding at least 2
\* reports variance() = M2 / (count - 1).
C8_DegenerateStatsZero ==
    \A x \in Slots :
        /\ ag[x].count < 2 =>
              AggVariance(ag[x]) = Zero /\ AggStdError(ag[x]) = Zero
        /\ ag[x].count >= 2 =>
              AggVariance(ag[x]) = RDiv(M2Of(hist[x]), ToDouble(ag[x].count - 1))

(***************************************************************************)
(* SpecPart: the partition arithmetic of Parallel::run on its own, for     *)
(* iteration counts larger than the ones the engine specification runs.    *)
(***************************************************************************)
\* largest iteration count and worker count of the partition specification
MaxPartIter == 8

MaxPartWorkers == 4

InitPart ==
    /\ \E n \in 0 .. MaxPartIter, W \in 1 .. MaxPartWorkers :
          part = [iterations |-> n, W |-> W, t |-> 0, chunks |-> <<>>]
    /\ AggUnused
    /\ MainUnused
    /\ SeedUnused
    /\ CIUnused
    /\ SimUnused

\* one turn of the thread-creation loop: thread part.t gets its thread_iters
PartStep ==
    /\ part.t < part.W
    /\ part' = [part EXCEPT
                  !.t = part.t + 1,
                  !.chunks = Append(part.chunks,
                                    thread_iters(part.iterations, part.W, part.t))]
    /\ UNCHANGED <<aggVars, mainVars, otherVars>>

NextPart == PartStep

SpecPart == InitPart /\ [][NextPart]_vars

RECURSIVE SumInts(_)
SumInts(xs) == IF xs = <<>> THEN 0 ELSE xs[1] + SumInts(Tail(xs))

\* C5: once every worker has its chunk, worker k (counted from 0) has
\* floor(n/W) trials plus one more exactly when k < n mod W, and the chunks
\* sum to n.
C5_PartitionRule ==
    part.t = part.W =>
        LET n == part.iterations
            W == part.W
        IN  /\ Len(part.chunks) = W
            /\ \A k \in 0 .. W - 1 :
                  part.chunks[k + 1] = (n \div W) + (IF k < n % W THEN 1 ELSE 0)
            /\ SumInts(part.chunks) = n
            /\ {k \in 0 .. W - 1 : part.chunks[k + 1] = (n \div W) + 1}
                 = 0 .. (n % W) - 1

\* n = 7 over W = 3 gives the chunks 3, 2, 2
C5_Witness ==
    /\ part.iterations = 7 /\ part.W = 3 /\ part.t = 3
    /\ part.chunks = <<3, 2, 2>>

(***************************************************************************)
(* SpecCI: confidence_interval(result, confidence_level) on its own.       *)
(***************************************************************************)
\* x >= y on doubles; every comparison with NaN is false
RGeq(x, y) == ~IsNaN(x) /\ ~IsNaN(y) /\ ~RLess(x, y)

\* the z-scores of the code, as doubles
Z90 == Norm(<<1645, 1000>>)

Z95 == Norm(<<196, 100>>)

Z99 == Norm(<<2576, 1000>>)

\* the levels the z-score is chosen by
L90 == Norm(<<90, 100>>)

L95 == Norm(<<95, 100>>)

L99 == Norm(<<99, 100>>)

\* variant of confidence_interval that compares with > instead of >=
confidence_interval_strict(r, level) ==
    LET z == IF RLess(L99, level) THEN Z99
             ELSE IF RLess(L95, level) THEN Z95
             ELSE IF RLess(L90, level) THEN Z90
             ELSE Z95
        margin == RMul(z, r.standard_error)
    IN  [lower |-> RSub(r.estimate, margin),
         upper |-> RAdd(r.estimate, margin),
         confidence_level |-> level]

\* confidence_interval: double z = 1.96; if (level >= 0.99) z = 2.576;
\* else if (level >= 0.95) z = 1.96; else if (level >= 0.90) z = 1.645
confidence_interval(r, level) ==
    LET z == IF RGeq(level, L99) THEN Z99
             ELSE IF RGeq(level, L95) THEN Z95
             ELSE IF RGeq(level, L90) THEN Z90
             ELSE Z95
        margin == RMul(z, r.standard_error)
    IN  [lower |-> RSub(r.estimate, margin),
         upper |-> RAdd(r.estimate, margin),
         confidence_level |-> level]

\* the levels asked for: the three of the table, and levels below, between
\* and above them
Levels ==
    {Norm(<<n, 1000>>) : n \in {500, 890, 900, 920, 950, 970, 990, 995, 1000}}

\* the Results handed in: estimates and standard errors of both signs and 0
CIResults ==
    {[NoResult EXCEPT !.estimate = e, !.standard_error = se] :
        e \in {Zero, <<1, 2>>, <<-3, 1>>}, se \in {Zero, <<1, 10>>, <<2, 1>>}}

InitCI ==
    /\ \E r \in CIResults, level \in Levels :
          ci = [st |-> "args", r |-> r, level |-> level, out |-> <<>>]
    /\ AggUnused
    /\ PartUnused
    /\ MainUnused
    /\ SeedUnused
    /\ SimUnused

\* the call confidence_interval(ci.r, ci.level) returns
CallCI ==
    /\ ci.st = "args"
    /\ ci' = [ci EXCEPT !.st = "done",
                         !.out = confidence_interval(ci.r, ci.level)]
    /\ UNCHANGED <<aggVars, part, mainVars, sim, held, seedVars>>

NextCI == CallCI

SpecCI == InitCI /\ [][NextCI]_vars

\* z as a table with a default: the three listed levels, 1.96 for any other
TableZ(level) ==
    IF level = L90 THEN Z90
    ELSE IF level = L95 THEN Z95
    ELSE IF level = L99 THEN Z99
    ELSE Z95

\* z by the range the level falls in
RangeZ(level) ==
    IF RLess(level, L90) THEN Z95
    ELSE IF RLess(level, L95) THEN Z90
    ELSE IF RLess(level, L99) THEN Z95
    ELSE Z99

\* the interval estimate -+ z * standard_error, labelled with the level
IntervalWith(z, r, level) ==
    [lower |-> RSub(r.estimate, RMul(z, r.standard_error)),
     upper |-> RAdd(r.estimate, RMul(z, r.standard_error)),
     confidence_level |-> level]

\* C14 as stated: the interval returned is estimate -+ z * standard_error
\* with z = 1.645 for level 0.90, 1.96 for 0.95, 2.576 for 0.99 and 1.96 for
\* every other level, and it carries the requested level.
C14_IntervalByTable ==
    ci.st = "done" => ci.out = IntervalWith(TableZ(ci.level), ci.r, ci.level)

\* C14, amended: z is 2.576 for every level >= 0.99, 1.96 for every level in
\* [0.95, 0.99), 1.645 for every level in [0.90, 0.95) and 1.96 for every
\* level below 0.90; the interval carries the requested level.
C14_IntervalByRange ==
    ci.st = "done" => ci.out = IntervalWith(RangeZ(ci.level), ci.r, ci.level)

\* the level 0.92 gets the z-score of 0.90
C14_Witness ==
    /\ ci.st = "done"
    /\ ci.level = Norm(<<92, 100>>)
    /\ ci.r.standard_error = <<2, 1>>
    /\ ci.r.estimate = <<1, 2>>
    /\ ci.out.lower = RSub(<<1, 2>>, RMul(Z90, <<2, 1>>))
    /\ ci.out.upper # RAdd(<<1, 2>>, RMul(Z95, <<2, 1>>))

(***************************************************************************)
(* SpecSim: one MonteCarloSimulator object and one calling thread, which   *)
(* calls setNumThreads, run and runRaw.  sim.hw is what                    *)
(* std::thread::hardware_concurrency() returns.  The simulation function   *)
(* returns some value of SimVals and does not throw.                       *)
(***************************************************************************)
\* largest num_simulations
MaxSims == 4

\* largest thread count
MaxSimThreads == 3

\* what the simulation function can return
SimVals == {Zero, <<42, 1>>}

\* if (num_threads == 0) { hardware_concurrency(), or 1 if that is 0 }
AutoThreads(hw) == IF hw = 0 THEN 1 ELSE hw

\* variant of sim_count that hands the remainder to nobody
sim_count_truncating(n, T, j) == n \div T

\* runParallel: count = sims_per_thread + (i < remaining ? 1 : 0)
sim_count(n, T, j) == (n \div T) + (IF j < n % T THEN 1 ELSE 0)

\* MonteCarloSimulator::MonteCarloSimulator
InitSim ==
    /\ \E n \in 0 .. MaxSims, hw \in {0, MaxSimThreads} :
          sim = [NoSim EXCEPT !.pc = "idle", !.num_simulations_ = n,
                              !.hw = hw, !.num_threads_ = AutoThreads(hw)]
    /\ AggUnused
    /\ PartUnused
    /\ MainUnused
    /\ SeedUnused
    /\ CIUnused

\* sim.setNumThreads(n)
setNumThreads(n) ==
    /\ sim.pc = "idle"
    /\ sim' = [sim EXCEPT !.num_threads_ =
                             IF n = 0 THEN AutoThreads(sim.hw) ELSE n]
    /\ UNCHANGED <<aggVars, part, mainVars, ci, held, seedVars>>

\* sim.run(f, parallel) when raw is FALSE, sim.runRaw(f, parallel) otherwise
SimCall(parallel, raw) ==
    /\ sim.pc = "idle"
    /\ sim' = [sim EXCEPT !.parallel = parallel, !.raw = raw,
                          !.results = <<>>, !.futures = <<>>, !.k = 0,
                          !.returned = FALSE,
                          !.pc = IF parallel /\ sim.num_threads_ > 1
                                 THEN "par_spawn" ELSE "seq"]
    /\ UNCHANGED <<aggVars, part, mainVars, ci, held, seedVars>>

\* runSequential: one turn of the loop
SimSeqStep ==
    /\ sim.pc = "seq"
    /\ sim.k < sim.num_simulations_
    /\ \E v \in SimVals :
          sim' = [sim EXCEPT !.results = Append(sim.results, v),
                             !.k = sim.k + 1]
    /\ UNCHANGED <<aggVars, part, mainVars, ci, held, seedVars>>

\* runRaw returns the vector; run goes on to computeStatistics
AfterRun == IF sim.raw THEN "idle" ELSE "stats"

\* runSequential returns
SimSeqReturn ==
    /\ sim.pc = "seq"
    /\ sim.k = sim.num_simulations_
    /\ sim' = [sim EXCEPT !.pc = AfterRun, !.returned = sim.raw]
    /\ UNCHANGED <<aggVars, part, mainVars, ci, held, seedVars>>

\* runParallel: futures.push_back(std::async(std::launch::async, ...))
SimSpawn ==
    /\ sim.pc = "par_spawn"
    /\ sim' = [sim EXCEPT
                 !.futures = Append(sim.futures,
                                    [count |-> sim_count(sim.num_simulations_,
                                                         sim.num_threads_, sim.k),
                                     thread_results |-> <<>>]),
                 !.k = IF sim.k + 1 = sim.num_threads_ THEN 0 ELSE sim.k + 1,
                 !.pc = IF sim.k + 1 = sim.num_threads_
                        THEN "par_get" ELSE "par_spawn"]
    /\ UNCHANGED <<aggVars, part, mainVars, ci, held, seedVars>>

\* the task of future j: one turn of its loop
SimTask(j) ==
    /\ sim.pc \in {"par_spawn", "par_get"}
    /\ Len(sim.futures[j].thread_results) < sim.futures[j].count
    /\ \E v \in SimVals :
          sim' = [sim EXCEPT !.futures[j].thread_results =
                                Append(sim.futures[j].thread_results, v)]
    /\ UNCHANGED <<aggVars, part, mainVars, ci, held, seedVars>>

\* runParallel: future.get() for the next future, and results.insert
SimGet ==
    /\ sim.pc = "par_get"
    /\ sim.k < sim.num_threads_
    /\ LET f == sim.futures[sim.k + 1]
       IN  /\ Len(f.thread_results) = f.count
           /\ sim' = [sim EXCEPT !.results = sim.results \o f.thread_results,
                                 !.k = sim.k + 1]
    /\ UNCHANGED <<aggVars, part, mainVars, ci, held, seedVars>>

\* runParallel returns
SimParReturn ==
    /\ sim.pc = "par_get"
    /\ sim.k = sim.num_threads_
    /\ sim' = [sim EXCEPT !.pc = AfterRun, !.returned = sim.raw]
    /\ UNCHANGED <<aggVars, part, mainVars, ci, held, seedVars>>

\* computeStatistics: stats.num_samples = results.size(); run returns
SimStats ==
    /\ sim.pc = "stats"
    /\ sim' = [sim EXCEPT !.num_samples = Len(sim.results), !.pc = "idle",
                          !.returned = TRUE]
    /\ UNCHANGED <<aggVars, part, mainVars, ci, held, seedVars>>

NextSim ==
    \/ \E n \in 0 .. MaxSimThreads : setNumThreads(n)
    \/ \E parallel \in BOOLEAN, raw \in BOOLEAN : SimCall(parallel, raw)
    \/ SimSeqStep
    \/ SimSeqReturn
    \/ SimSpawn
    \/ \E j \in 1 .. Len(sim.futures) : SimTask(j)
    \/ SimGet
    \/ SimParReturn
    \/ SimStats

SpecSim == InitSim /\ [][NextSim]_vars

\* C16: a call of run or runRaw that has returned has produced exactly
\* num_simulations samples: runRaw's vector has that many values, and run
\* reports that num_samples; whether run in sequence or in parallel, for
\* every thread count >= 1.
C16_ExactlyNSamples ==
    /\ sim.num_threads_ >= 1
    /\ (sim.pc = "idle" /\ sim.returned) =>
          /\ Len(sim.results) = sim.num_simulations_
          /\ ~sim.raw => sim.num_samples = sim.num_simulations_

\* a parallel run of 4 simulations over 3 threads: shares of 2, 1 and 1
C16_Witness ==
    /\ sim.pc = "idle" /\ sim.returned
    /\ sim.parallel /\ ~sim.raw
    /\ sim.num_threads_ = 3 /\ sim.num_simulations_ = 4
    /\ Len(sim.futures) = 3
    /\ sim.futures[1].count = 2
    /\ sim.num_samples = 4

(***************************************************************************)
(* Spec: one SimulationEngine object and one calling thread.  The engine   *)
(* is constructed in Init; the caller then calls run, simulate and         *)
(* set_seed, one call after the other.  Every call of Spec takes the same  *)
(* time on the clock; SpecTimed (below) lets the measured time vary.       *)
(***************************************************************************)
\* the seeds the caller uses
Seeds == {1, SeedMod - 1}

\* the engines constructed: every model with the default aggregator and
\* transform, and Uniform01Model also with LinearScale and with MeanAggregator
Engines ==
    {[model |-> m, agg |-> "welford", transform |-> "Identity"] : m \in ModelKinds}
    \cup {[model |-> "Uniform01", agg |-> "welford", transform |-> "LinearScale"],
          [model |-> "Uniform01", agg |-> "mean", transform |-> "Identity"]}

\* Sequential{}, Parallel{n} for n >= 1, and Parallel{0} where
\* hardware_concurrency() reports 0 (not computable) or MaxWorkers
Policies ==
    {[kind |-> "seq", requested |-> 0, num_threads_ |-> 0]}
    \cup {[kind |-> "par", requested |-> n, num_threads_ |-> ParallelCtor(n, hw)] :
            n \in 0 .. MaxWorkers, hw \in {0, MaxWorkers}}

\* SimulationEngine::SimulationEngine (and Parallel::Parallel for policy_)
\* for an engine of E with a policy of P, where a call can take any time of D
InitEngine(E, P, D) ==
    /\ \E e \in E :
          model_ = e.model /\ aggKind = e.agg /\ transform_ = e.transform
    /\ policy_ \in P
    /\ durations = D
    /\ base_seed_ \in Seeds
    /\ op = NoOp
    /\ pc = "idle"
    /\ outcome = "none"
    /\ result = NoResult
    /\ old_seed = 0
    /\ runSeed = 0
    /\ agg = NewAgg(aggKind)
    /\ rng = NoRng
    /\ i = 0
    /\ local_aggs = <<>>
    /\ thr = <<>>
    /\ t = 0
    /\ joined = 0
    /\ merged = 0
    /\ added = <<>>
    /\ failure = FALSE
    /\ entrySeed = 0
    /\ prev = NoPrev
    /\ held = <<>>
    /\ SeedUnused
    /\ AggUnused
    /\ PartUnused
    /\ CIUnused
    /\ SimUnused

Init == InitEngine(Engines, Policies, {Zero})

\* the last call that returned a Result: its seed, iteration count and Result
Summary ==
    IF outcome = "returned" /\ op.name \in {"run", "simulate"}
    THEN [valid |-> TRUE, seed |-> runSeed, iterations |-> op.iterations,
          estimate |-> result.estimate, variance |-> result.variance,
          standard_error |-> result.standard_error,
          elapsed_ms |-> result.elapsed_ms]
    ELSE prev

\* the caller makes a call of run or simulate
BeginCall(name, n, s) ==
    /\ pc = "idle"
    /\ op' = [name |-> name, iterations |-> n, seed |-> s]
    /\ outcome' = "pending"
    /\ failure' = FALSE
    /\ entrySeed' = base_seed_
    /\ prev' = Summary
    /\ UNCHANGED <<aggVars, part, otherVars, envVars, engineVars,
                   base_seed_, result, old_seed,
                   runSeed, agg, seqVars, parVars, added>>

\* engine.run(n)
CallRun(n) ==
    /\ BeginCall("run", n, 0)
    /\ pc' = "run"

\* engine.simulate(n, s)
CallSimulate(n, s) ==
    /\ BeginCall("simulate", n, s)
    /\ pc' = "simulate"

\* engine.set_seed(s)
set_seed(s) ==
    /\ pc = "idle"
    /\ base_seed_' = s
    /\ op' = [name |-> "set_seed", iterations |-> 0, seed |-> s]
    /\ outcome' = "returned"
    /\ failure' = FALSE
    /\ entrySeed' = base_seed_
    /\ prev' = Summary
    /\ UNCHANGED <<aggVars, part, otherVars, envVars, engineVars,
                   pc, result, old_seed, runSeed,
                   agg, seqVars, parVars, added>>

\* simulate: old_seed = base_seed_; base_seed_ = seed
SimulateOverride ==
    /\ pc = "simulate"
    /\ old_seed' = base_seed_
    /\ base_seed_' = op.seed
    /\ pc' = "run"
    /\ UNCHANGED <<aggVars, part, otherVars, envVars, engineVars,
                   op, outcome, result,
                   runSeed, agg, seqVars, parVars, added, failure, entrySeed,
                   prev>>

\* run: Aggregator agg; policy_.run(wrapped_model, agg, iterations, base_seed_)
RunBegin ==
    /\ pc = "run"
    /\ agg' = NewAgg(aggKind)
    /\ runSeed' = base_seed_
    /\ added' = <<>>
    /\ local_aggs' = <<>>
    /\ thr' = <<>>
    /\ pc' = IF policy_.kind = "seq" THEN "seq_init" ELSE "par_begin"
    /\ UNCHANGED <<aggVars, part, otherVars, envVars, engineVars,
                   base_seed_, callVars, failure,
                   seqVars, t, joined, merged>>

\* variant of Throw in which the failure is caught and the trial is tried
\* again
Throw_retry ==
    /\ UNCHANGED <<pc, outcome>>
    /\ failure' = TRUE

\* an exception leaves run (and simulate) and reaches the caller
Throw ==
    /\ pc' = "idle"
    /\ outcome' = "threw"
    /\ failure' = TRUE

\* variant of SeqInit that makes the generator once and keeps it across runs
SeqInit_keepsGenerator ==
    /\ pc = "seq_init"
    /\ rng' = IF rng = NoRng THEN DefaultRngFactory(runSeed) ELSE rng
    /\ i' = 0
    /\ added' = [w \in {0} |-> <<>>]
    /\ pc' = "seq_loop"
    /\ UNCHANGED <<aggVars, part, otherVars, envVars, engineVars,
                   base_seed_, callVars,
                   runSeed, agg, parVars, failure>>

\* variant of SeqInit that empties the destination before the loop
SeqInit_resetsAgg ==
    /\ pc = "seq_init"
    /\ rng' = DefaultRngFactory(runSeed)
    /\ i' = 0
    /\ added' = [w \in {0} |-> <<>>]
    /\ agg' = AggReset(agg)
    /\ pc' = "seq_loop"
    /\ UNCHANGED <<aggVars, part, otherVars, envVars, engineVars,
                   base_seed_, callVars, runSeed,
                   parVars, failure>>

\* Sequential::run: auto rng = rng_factory(seed)
SeqInit ==
    /\ pc = "seq_init"
    /\ rng' = DefaultRngFactory(runSeed)
    /\ i' = 0
    /\ added' = [w \in {0} |-> <<>>]
    /\ pc' = "seq_loop"
    /\ UNCHANGED <<aggVars, part, otherVars, envVars, engineVars,
                   base_seed_, callVars, runSeed,
                   agg, parVars, failure>>

\* Sequential::run: one turn of the loop
SeqTrial ==
    /\ pc = "seq_loop"
    /\ i < op.iterations
    /\ LET r == wrapped_model(model_, transform_, rng)
       IN  IF r.ok
           THEN /\ agg' = AggAdd(agg, r.value)
                /\ rng' = r.rng
                /\ i' = i + 1
                /\ added' = [added EXCEPT ![0] = Append(added[0], r.value)]
                /\ UNCHANGED <<pc, outcome, failure>>
           ELSE /\ Throw
                /\ UNCHANGED <<agg, rng, i, added>>
    /\ UNCHANGED <<aggVars, part, otherVars, envVars, engineVars,
                   base_seed_, op, result,
                   old_seed, entrySeed, prev, runSeed, parVars>>

\* Sequential::run returns
SeqReturn ==
    /\ pc = "seq_loop"
    /\ i = op.iterations
    /\ pc' = "run_end"
    /\ UNCHANGED <<aggVars, part, otherVars, envVars, engineVars,
                   base_seed_, callVars, runSeed,
                   agg, seqVars, parVars, added, failure>>

\* SimulationEngine::construct_result
construct_result(a, iterations, elapsed) ==
    [iterations |-> iterations,
     estimate |-> AggResult(a),
     variance |-> AggVariance(a),
     standard_error |-> AggStdError(a),
     elapsed_ms |-> elapsed]

\* run: end = steady_clock::now();
\* return construct_result(agg, iterations, start, end)
RunReturn ==
    /\ pc = "run_end"
    /\ \E d \in durations : result' = construct_result(agg, op.iterations, d)
    /\ IF op.name = "simulate"
       THEN pc' = "restore" /\ UNCHANGED outcome
       ELSE pc' = "idle" /\ outcome' = "returned"
    /\ UNCHANGED <<aggVars, part, otherVars, envVars, engineVars,
                   base_seed_, op, old_seed,
                   entrySeed, prev, runSeed, agg, seqVars, parVars, added,
                   failure>>

\* variant of simulate's return that leaves the override in place
SimulateReturn_noRestore ==
    /\ pc = "restore"
    /\ pc' = "idle"
    /\ outcome' = "returned"
    /\ UNCHANGED <<aggVars, part, otherVars, envVars, engineVars,
                   base_seed_, op, result, old_seed,
                   entrySeed, prev, runSeed, agg, seqVars, parVars, added,
                   failure>>

\* simulate: base_seed_ = old_seed; return result
SimulateReturn ==
    /\ pc = "restore"
    /\ base_seed_' = old_seed
    /\ pc' = "idle"
    /\ outcome' = "returned"
    /\ UNCHANGED <<aggVars, part, otherVars, envVars, engineVars,
                   op, result, old_seed,
                   entrySeed, prev, runSeed, agg, seqVars, parVars, added,
                   failure>>

\* the fallback of Parallel::run for an aggregator without merge:
\* for (i = 0; i < local_agg.count(); ++i) agg.add(local_agg.result())
RECURSIVE ReplayMean(_, _, _)
ReplayMean(dest, local_agg, k) ==
    IF k = 0 THEN dest
    ELSE AggAdd(ReplayMean(dest, local_agg, k - 1), AggResult(local_agg))

\* Parallel::run: one turn of the merge loop
MergeLocal(dest, local_agg) ==
    IF HasMerge(dest.kind) THEN Welford_merge(dest, local_agg)
    ELSE ReplayMean(dest, local_agg, local_agg.count)

Workers == 0 .. policy_.num_threads_ - 1

\* variant of Joinable in which join never returns
Joinable_never(th) == FALSE

\* variant of Joinable in which join returns without waiting for the thread
Joinable_noWait(th) == TRUE

\* thread.join() returns once the thread function has returned
Joinable(th) == th.st = "finished"

\* Parallel::run: local_aggs(num_threads_); iterations / num_threads_.
\* With num_threads_ = 0 the division is undefined: the build either traps
\* or carries on with some quotient, which the empty loops never use.
ParBegin ==
    /\ pc = "par_begin"
    /\ local_aggs' = [w \in Workers |-> NewAgg(aggKind)]
    /\ thr' = [w \in Workers |-> [st |-> "none", i |-> 0, iters |-> 0, rng |-> NoRng]]
    /\ added' = [w \in Workers |-> <<>>]
    /\ t' = 0
    /\ joined' = 0
    /\ merged' = 0
    /\ IF policy_.num_threads_ = 0
       THEN \/ pc' = "dead" /\ outcome' = "crashed"
            \/ pc' = "par_join" /\ UNCHANGED outcome
       ELSE pc' = "par_spawn" /\ UNCHANGED outcome
    /\ UNCHANGED <<aggVars, part, otherVars, envVars, engineVars,
                   base_seed_, op, result,
                   old_seed, entrySeed, prev, runSeed, agg, seqVars, failure>>

\* Parallel::run: threads.emplace_back(...) for thread t
Spawn ==
    /\ pc = "par_spawn"
    /\ thr' = [thr EXCEPT ![t] =
                 [st |-> "ready", i |-> 0,
                  iters |-> thread_iters(op.iterations, policy_.num_threads_, t),
                  rng |-> NoRng]]
    /\ t' = t + 1
    /\ pc' = IF t + 1 = policy_.num_threads_ THEN "par_join" ELSE "par_spawn"
    /\ UNCHANGED <<aggVars, part, otherVars, envVars, engineVars,
                   base_seed_, callVars, runSeed,
                   agg, seqVars, local_aggs, joined, merged, added, failure>>

\* the threads run while Parallel::run is between creating and merging them
ParRunning == pc \in {"par_spawn", "par_join", "par_merge"}

\* thread w: auto rng = rng_factory(seed + t)
WorkerStart(w) ==
    /\ ParRunning
    /\ thr[w].st = "ready"
    /\ thr' = [thr EXCEPT ![w].st = "running",
                          ![w].rng = DefaultRngFactory(WorkerSeed(runSeed, w))]
    /\ UNCHANGED <<aggVars, part, otherVars, envVars, engineVars,
                   base_seed_, callVars, pc,
                   runSeed, agg, seqVars, local_aggs, t, joined, merged, added,
                   failure>>

\* variant of WorkerTrial in which every worker adds to local_aggs[0]
WorkerTrial_sharedAgg(w) ==
    /\ ParRunning
    /\ thr[w].st = "running"
    /\ thr[w].i < thr[w].iters
    /\ LET r == wrapped_model(model_, transform_, thr[w].rng)
       IN  IF r.ok
           THEN /\ local_aggs' = [local_aggs EXCEPT ![0] = AggAdd(local_aggs[0], r.value)]
                /\ thr' = [thr EXCEPT ![w].rng = r.rng, ![w].i = thr[w].i + 1]
                /\ added' = [added EXCEPT ![w] = Append(added[w], r.value)]
                /\ UNCHANGED <<pc, outcome, failure>>
           ELSE /\ pc' = "dead"
                /\ outcome' = "terminated"
                /\ failure' = TRUE
                /\ UNCHANGED <<local_aggs, thr, added>>
    /\ UNCHANGED <<aggVars, part, otherVars, envVars, engineVars,
                   base_seed_, op, result,
                   old_seed, entrySeed, prev, runSeed, agg, seqVars, t, joined,
                   merged>>

\* thread w: one turn of its loop.  An exception that leaves the thread
\* function calls std::terminate, which ends the process.
WorkerTrial(w) ==
    /\ ParRunning
    /\ thr[w].st = "running"
    /\ thr[w].i < thr[w].iters
    /\ LET r == wrapped_model(model_, transform_, thr[w].rng)
       IN  IF r.ok
           THEN /\ local_aggs' = [local_aggs EXCEPT ![w] = AggAdd(local_aggs[w], r.value)]
                /\ thr' = [thr EXCEPT ![w].rng = r.rng, ![w].i = thr[w].i + 1]
                /\ added' = [added EXCEPT ![w] = Append(added[w], r.value)]
                /\ UNCHANGED <<pc, outcome, failure>>
           ELSE /\ pc' = "dead"
                /\ outcome' = "terminated"
                /\ failure' = TRUE
                /\ UNCHANGED <<local_aggs, thr, added>>
    /\ UNCHANGED <<aggVars, part, otherVars, envVars, engineVars,
                   base_seed_, op, result,
                   old_seed, entrySeed, prev, runSeed, agg, seqVars, t, joined,
                   merged>>

\* thread w: the thread function returns
WorkerExit(w) ==
    /\ ParRunning
    /\ thr[w].st = "running"
    /\ thr[w].i = thr[w].iters
    /\ thr' = [thr EXCEPT ![w].st = "finished"]
    /\ UNCHANGED <<aggVars, part, otherVars, envVars, engineVars,
                   base_seed_, callVars, pc,
                   runSeed, agg, seqVars, local_aggs, t, joined, merged, added,
                   failure>>

\* Parallel::run: thread.join() for the next thread in index order
Join ==
    /\ pc = "par_join"
    /\ joined < policy_.num_threads_
    /\ Joinable(thr[joined])
    /\ joined' = joined + 1
    /\ UNCHANGED <<aggVars, part, otherVars, envVars, engineVars,
                   base_seed_, callVars, pc,
                   runSeed, agg, seqVars, local_aggs, thr, t, merged, added,
                   failure>>

\* variant of ParReset that leaves the destination as it is
ParReset_noReset ==
    /\ pc = "par_join"
    /\ joined = policy_.num_threads_
    /\ agg' = agg
    /\ merged' = 0
    /\ pc' = "par_merge"
    /\ UNCHANGED <<aggVars, part, otherVars, envVars, engineVars,
                   base_seed_, callVars, runSeed,
                   seqVars, local_aggs, thr, t, joined, added, failure>>

\* Parallel::run: agg.reset() after the join loop
ParReset ==
    /\ pc = "par_join"
    /\ joined = policy_.num_threads_
    /\ agg' = AggReset(agg)
    /\ merged' = 0
    /\ pc' = "par_merge"
    /\ UNCHANGED <<aggVars, part, otherVars, envVars, engineVars,
                   base_seed_, callVars, runSeed,
                   seqVars, local_aggs, thr, t, joined, added, failure>>

\* Parallel::run: merge the next local aggregator in index order
ParMerge ==
    /\ pc = "par_merge"
    /\ merged < policy_.num_threads_
    /\ agg' = MergeLocal(agg, local_aggs[merged])
    /\ merged' = merged + 1
    /\ UNCHANGED <<aggVars, part, otherVars, envVars, engineVars,
                   base_seed_, callVars, pc,
                   runSeed, seqVars, local_aggs, thr, t, joined, added, failure>>

\* Parallel::run returns
ParReturn ==
    /\ pc = "par_merge"
    /\ merged = policy_.num_threads_
    /\ pc' = "run_end"
    /\ UNCHANGED <<aggVars, part, otherVars, envVars, engineVars,
                   base_seed_, callVars, runSeed,
                   agg, seqVars, parVars, added, failure>>

Next ==
    \/ \E n \in 0 .. MaxIter : CallRun(n)
    \/ \E n \in 0 .. MaxIter, s \in Seeds : CallSimulate(n, s)
    \/ \E s \in Seeds : set_seed(s)
    \/ SimulateOverride
    \/ RunBegin
    \/ SeqInit
    \/ SeqTrial
    \/ SeqReturn
    \/ RunReturn
    \/ SimulateReturn
    \/ ParBegin
    \/ Spawn
    \/ \E w \in Workers : WorkerStart(w)
    \/ \E w \in Workers : WorkerTrial(w)
    \/ \E w \in Workers : WorkerExit(w)
    \/ Join
    \/ ParReset
    \/ ParMerge
    \/ ParReturn

Spec == Init /\ [][Next]_vars

(***************************************************************************)
(* SpecTimed: the same engine and caller, where the time a call takes on   *)
(* the steady clock varies from call to call.  Fewer engines are built, to *)
(* leave room for the clock.                                               *)
(***************************************************************************)
\* the elapsed times a call can measure, in milliseconds
Durations == {Zero, <<1, 2>>}

TimedEngines ==
    {[model |-> "Uniform01", agg |-> "welford", transform |-> "Identity"]}

TimedPolicies ==
    {[kind |-> "seq", requested |-> 0, num_threads_ |-> 0],
     [kind |-> "par", requested |-> 2, num_threads_ |-> ParallelCtor(2, 0)]}

InitTimed == InitEngine(TimedEngines, TimedPolicies, Durations)

SpecTimed == InitTimed /\ [][Next]_vars

(***************************************************************************)
(* SpecPolicy: an execution policy called directly, not through an engine: *)
(* policy.run(model, agg, iterations, seed) with the caller's own          *)
(* aggregator, which may hold samples already.  pc = "run_end" is the      *)
(* state in which the policy has returned to its caller.                   *)
(***************************************************************************)
\* what the caller's aggregator holds at the call
HeldBefore == {<<>>, << <<5, 2>> >>, << <<5, 2>>, <<1, 1>> >>}

\* Sequential{} and Parallel{n}, where hardware_concurrency() reports 0
DirectPolicies ==
    {[kind |-> "seq", requested |-> 0, num_threads_ |-> 0]}
    \cup {[kind |-> "par", requested |-> n, num_threads_ |-> ParallelCtor(n, 0)] :
            n \in 0 .. MaxWorkers}

InitPolicy ==
    /\ model_ = "Uniform01"
    /\ aggKind \in AggKinds
    /\ transform_ = "Identity"
    /\ policy_ \in DirectPolicies
    /\ durations = {Zero}
    /\ base_seed_ = 0
    /\ \E n \in 0 .. MaxIter, s \in Seeds :
          /\ op = [name |-> "policy_run", iterations |-> n, seed |-> s]
          /\ runSeed = s
    /\ held \in HeldBefore
    /\ agg = Aggregate(aggKind, held)
    /\ pc = IF policy_.kind = "seq" THEN "seq_init" ELSE "par_begin"
    /\ outcome = "pending"
    /\ result = NoResult
    /\ old_seed = 0
    /\ rng = NoRng
    /\ i = 0
    /\ local_aggs = <<>>
    /\ thr = <<>>
    /\ t = 0
    /\ joined = 0
    /\ merged = 0
    /\ added = <<>>
    /\ failure = FALSE
    /\ entrySeed = 0
    /\ prev = NoPrev
    /\ AggUnused
    /\ PartUnused
    /\ CIUnused
    /\ SimUnused
    /\ SeedUnused

NextPolicy ==
    \/ SeqInit
    \/ SeqTrial
    \/ SeqReturn
    \/ ParBegin
    \/ Spawn
    \/ \E w \in Workers : WorkerStart(w)
    \/ \E w \in Workers : WorkerTrial(w)
    \/ \E w \in Workers : WorkerExit(w)
    \/ Join
    \/ ParReset
    \/ ParMerge
    \/ ParReturn

SpecPolicy == InitPolicy /\ [][NextPolicy]_vars

\* where the calling thread is in Sequential::run or Parallel::run
CallerPos == <<pc, i, t, joined, merged>>

\* the calling thread has a next step: always before the policy returns,
\* except while thread.join() blocks on a thread that has not finished
CallerRunnable ==
    /\ pc \in {"seq_init", "seq_loop", "par_begin", "par_spawn", "par_join",
               "par_merge"}
    /\ (pc = "par_join" /\ joined < policy_.num_threads_) => Joinable(thr[joined])

\* the calling thread moves to another position
CallerMoves ==
    /\ CallerRunnable
    /\ pc' \in {"seq_loop", "par_spawn", "par_join", "par_merge", "run_end",
                "dead"}
    /\ i' \in 0 .. MaxIter
    /\ t' \in 0 .. MaxWorkers
    /\ joined' \in 0 .. MaxWorkers
    /\ merged' \in 0 .. MaxWorkers

\* worker thread w has a next step: from its creation until its thread
\* function returns
WorkerRunnable(w) ==
    /\ ParRunning
    /\ w \in Workers
    /\ thr[w].st \in {"ready", "running"}

\* the thread table after a step of worker w: the generator is created,
\* a trial is done (with or without a draw), or the thread function returns
WorkerNext(w) ==
    {[thr EXCEPT ![w].st = "running",
                 ![w].rng = DefaultRngFactory(WorkerSeed(runSeed, w))],
     [thr EXCEPT ![w].i = thr[w].i + 1, ![w].rng = Advance(thr[w].rng)],
     [thr EXCEPT ![w].i = thr[w].i + 1],
     [thr EXCEPT ![w].st = "finished"]}

\* worker thread w moves on
WorkerMoves(w) == WorkerRunnable(w) /\ thr' \in WorkerNext(w)

\* SpecPolicyFair: SpecPolicy under a scheduler that keeps running every
\* thread that has a next step (the calling thread and each std::thread).
\* Each condition is stated on the thread's own position, which every step
\* of the thread changes and no step of another thread does.
SpecPolicyFair ==
    /\ InitPolicy
    /\ [][NextPolicy]_vars
    /\ WF_CallerPos(CallerMoves)
    /\ \A w \in 0 .. MaxWorkers - 1 : WF_thr(WorkerMoves(w))

(***************************************************************************)
(* SpecConc: two threads call simulate and run (or simulate) on the same   *)
(* engine object.  Both members are const and take no lock; simulate       *)
(* writes base_seed_ through const_cast.  The accesses to base_seed_ are   *)
(* unsynchronised; the model takes the outcomes in which each access is    *)
(* atomic and the accesses interleave, which every build can produce.      *)
(***************************************************************************)
Callers == {1, 2}

\* a call of run(n) or simulate(n, seed) that has just started
NewCall(name, seed) ==
    [name |-> name, seed |-> seed,
     pc |-> IF name = "simulate" THEN "simulate" ELSE "run",
     old_seed |-> 0, runSeed |-> 0]

InitConc ==
    /\ \E b \in Seeds, s1 \in Seeds :
       \E c2 \in {NewCall("run", 0)} \cup {NewCall("simulate", s2) : s2 \in Seeds} :
          calls = [base_seed_ |-> b, entry |-> b,
                   call |-> <<NewCall("simulate", s1), c2>>]
    /\ seeding = NoSeeding
    /\ AggUnused
    /\ PartUnused
    /\ MainUnused
    /\ CIUnused
    /\ SimUnused

\* simulate: auto old_seed = base_seed_
ConcSaveSeed(c) ==
    /\ calls.call[c].pc = "simulate"
    /\ calls' = [calls EXCEPT !.call[c].old_seed = calls.base_seed_,
                              !.call[c].pc = "override"]
    /\ UNCHANGED <<aggVars, part, mainVars, ci, sim, held, seeding>>

\* simulate: const_cast<SimulationEngine*>(this)->base_seed_ = seed
ConcOverride(c) ==
    /\ calls.call[c].pc = "override"
    /\ calls' = [calls EXCEPT !.base_seed_ = calls.call[c].seed,
                              !.call[c].pc = "run"]
    /\ UNCHANGED <<aggVars, part, mainVars, ci, sim, held, seeding>>

\* run: policy_.run(wrapped_model, agg, iterations, base_seed_)
ConcRun(c) ==
    /\ calls.call[c].pc = "run"
    /\ calls' = [calls EXCEPT !.call[c].runSeed = calls.base_seed_,
                              !.call[c].pc =
                                 IF calls.call[c].name = "simulate"
                                 THEN "restore" ELSE "done"]
    /\ UNCHANGED <<aggVars, part, mainVars, ci, sim, held, seeding>>

\* simulate: const_cast<SimulationEngine*>(this)->base_seed_ = old_seed
ConcRestore(c) ==
    /\ calls.call[c].pc = "restore"
    /\ calls' = [calls EXCEPT !.base_seed_ = calls.call[c].old_seed,
                              !.call[c].pc = "done"]
    /\ UNCHANGED <<aggVars, part, mainVars, ci, sim, held, seeding>>

NextConc ==
    \/ \E c \in Callers : ConcSaveSeed(c)
    \/ \E c \in Callers : ConcOverride(c)
    \/ \E c \in Callers : ConcRun(c)
    \/ \E c \in Callers : ConcRestore(c)

SpecConc == InitConc /\ [][NextConc]_vars

(***************************************************************************)
(* SpecSeeding: the generators of two workers of Parallel::run, worker t   *)
(* of a run with seed s and worker t2 of a run with seed s2.               *)
(***************************************************************************)
InitSeeding ==
    /\ \E s \in 0 .. SeedMod - 1, s2 \in 0 .. SeedMod - 1 :
       \E w \in 0 .. MaxWorkers - 1, w2 \in 0 .. MaxWorkers - 1 :
          seeding = [NoSeeding EXCEPT !.st = "args", !.s = s, !.t = w,
                                      !.s2 = s2, !.t2 = w2]
    /\ calls = NoCalls
    /\ AggUnused
    /\ PartUnused
    /\ MainUnused
    /\ CIUnused
    /\ SimUnused

\* each thread lambda: auto rng = rng_factory(seed + static_cast<uint64_t>(t))
SeedWorkers ==
    /\ seeding.st = "args"
    /\ seeding' =
          [seeding EXCEPT
              !.st = "seeded",
              !.rng = DefaultRngFactory(WorkerSeed(seeding.s, seeding.t)),
              !.rng2 = DefaultRngFactory(WorkerSeed(seeding.s2, seeding.t2))]
    /\ UNCHANGED <<aggVars, part, mainVars, ci, sim, held, calls>>

NextSeeding == SeedWorkers

SpecSeeding == InitSeeding /\ [][NextSeeding]_vars

(***************************************************************************)
(* Properties of the engine and of the policies.                           *)
(***************************************************************************)
\* the call in progress, or the last one, is a run or a simulate
IsRunCall == op.name \in {"run", "simulate"}

\* the last call has handed a Result to the caller
Returned == pc = "idle" /\ outcome = "returned" /\ IsRunCall

IsParallel == policy_.kind = "par"

\* the values added in this run, worker after worker
RECURSIVE ConcatAdded(_)
ConcatAdded(k) ==
    IF k = 0 THEN <<>> ELSE ConcatAdded(k - 1) \o added[k - 1]

AllAdded == ConcatAdded(Cardinality(DOMAIN added))

\* C3: when a trial of a Parallel run throws, the process goes on, the
\* caller of run receives the exception, and by then every worker has
\* finished.
C3_ParallelFailureReachesCaller ==
    (IsParallel /\ failure) =>
        /\ outcome \in {"pending", "threw"}
        /\ outcome = "threw" => \A w \in Workers : thr[w].st = "finished"

\* C4: a Parallel run that returns after an earlier run of the same engine
\* with the same seed and iteration count reports the same estimate and
\* variance, whatever the interleaving of the workers was in either run.
C4_ParallelReproducible ==
    (Returned /\ IsParallel /\ prev.valid
       /\ prev.seed = runSeed /\ prev.iterations = op.iterations) =>
        /\ result.estimate = prev.estimate
        /\ result.variance = prev.variance

\* a second run over two or more workers, with scattered samples
C4_Witness ==
    /\ Returned /\ IsParallel /\ prev.valid
    /\ prev.seed = runSeed /\ prev.iterations = op.iterations
    /\ policy_.num_threads_ >= 2
    /\ op.iterations >= 3
    /\ result.variance # Zero

\* C6: whenever Parallel::run divides the iterations among the workers, the
\* worker count is at least 1, also for a policy constructed with 0.
C6_WorkerCountAtLeastOne ==
    pc = "par_begin" => policy_.num_threads_ >= 1

\* C7: the destination of a Parallel run reports the count, mean and
\* variance of all samples of the run, for every aggregator class: no
\* worker's samples are replaced by copies of their mean.
C7_NoMeanReplay ==
    (Returned /\ IsParallel /\ policy_.num_threads_ >= 1) =>
        Stats(agg) = Stats(Aggregate(aggKind, AllAdded))

\* C9: when simulate has returned, base_seed_ is what it was when simulate
\* was called; a run uses the base seed it was called with; and the call
\* after a simulate that returned starts from the base seed the simulate
\* was called with.
C9_SimulateRestoresSeed ==
    /\ [](/\ (pc = "idle" /\ op.name = "simulate" /\ outcome = "returned")
               => base_seed_ = entrySeed
          /\ (op.name = "run" /\ pc # "run") => runSeed = entrySeed)
    /\ [][(pc = "idle" /\ op.name = "simulate" /\ outcome = "returned"
             /\ pc' # "idle")
            => entrySeed' = entrySeed]_vars

\* a simulate with an override different from the base seed has returned
C9_Witness ==
    /\ pc = "idle" /\ op.name = "simulate" /\ outcome = "returned"
    /\ op.seed # entrySeed
    /\ runSeed = op.seed
    /\ base_seed_ = entrySeed
    /\ op.iterations >= 1

\* C10: the Result of run(n) has iterations = n and the estimate, variance
\* and standard error of run's aggregator, which holds exactly the n samples
\* of this run, under Sequential and under Parallel with W >= 1.
C10_ResultOfNSamples ==
    (Returned /\ (IsParallel => policy_.num_threads_ >= 1)) =>
        /\ result.iterations = op.iterations
        /\ agg.count = op.iterations
        /\ Len(AllAdded) = op.iterations
        /\ result.estimate = AggResult(agg)
        /\ result.variance = AggVariance(agg)
        /\ result.standard_error = AggStdError(agg)

\* a Parallel run whose iteration count is no multiple of the worker count
C10_Witness ==
    /\ Returned /\ IsParallel
    /\ policy_.num_threads_ = 2
    /\ op.iterations = 3
    /\ agg.count = 3
    /\ result.variance # Zero

\* the statistics a Result carries, without the time measurement
ResultStats(r) == <<r.estimate, r.variance, r.standard_error, r.iterations>>

SameRunAsPrev ==
    /\ Returned /\ ~IsParallel /\ prev.valid
    /\ prev.seed = runSeed /\ prev.iterations = op.iterations

\* C11 as stated: a Sequential run that returns after an earlier run of the
\* same engine with the same seed and iteration count returns a Result equal
\* to the earlier one in every field, elapsed_ms included.
C11_SequentialSameResult ==
    SameRunAsPrev =>
        /\ ResultStats(result) = ResultStats(prev)
        /\ result.elapsed_ms = prev.elapsed_ms

\* C11, amended: such a run returns the same estimate, variance, standard
\* error and iteration count as the earlier one; elapsed_ms is a clock
\* measurement and is not part of the guarantee.
C11_SequentialSameStats ==
    SameRunAsPrev => ResultStats(result) = ResultStats(prev)

\* a second Sequential run of 3 trials with scattered samples
C11_Witness ==
    /\ SameRunAsPrev
    /\ op.iterations = 3
    /\ result.variance # Zero

\* C12: a run of n >= 1 trials of the model that always returns 1.0 reports
\* the estimate 1.0 and the variance 0.0 exactly, under Sequential and under
\* Parallel with any number W >= 1 of workers, also when W > n.
C12_ConstantModelExact ==
    (Returned /\ model_ = "ConstantOne" /\ transform_ = "Identity"
       /\ op.iterations >= 1 /\ (IsParallel => policy_.num_threads_ >= 1)) =>
        /\ result.estimate = One
        /\ result.variance = Zero

\* a Parallel run of the constant model with more workers than trials:
\* the last worker's aggregator stayed empty and was merged all the same
C12_Witness ==
    /\ Returned /\ IsParallel /\ model_ = "ConstantOne"
    /\ policy_.num_threads_ = 3 /\ op.iterations = 2
    /\ local_aggs[2].count = 0
    /\ merged = 3
    /\ result.estimate = One

\* C13: a WelfordAggregator that reset has emptied, whatever add and merge
\* calls came before, is in the state of a newly constructed one and reports
\* count() = 0, result() = 0, variance() = 0 and std_error() = 0; and what it
\* is fed by add afterwards, it holds as a new aggregator would.
C13_ResetGivesEmpty ==
    \A x \in Slots :
        ag[x].kind = "welford" =>
            /\ prov[x] \in EmptyProv =>
                  /\ ag[x] = NewAgg("welford")
                  /\ ag[x].count = 0
                  /\ Welford_result(ag[x]) = Zero
                  /\ Welford_variance(ag[x]) = Zero
                  /\ Welford_std_error(ag[x]) = Zero
            /\ prov[x] = "adds" => ag[x] = Aggregate("welford", hist[x])

\* an aggregator emptied by reset after it had been fed by add and by merge
C13_Witness ==
    \E x \in Slots :
        /\ ag[x].kind = "welford"
        /\ prov[x] = "resetMerged"
        /\ ag[x].count = 0

\* C15: count() is the number of samples the aggregator stands for, where
\* every add contributes exactly one sample (hist grows by one) and a merge
\* contributes the samples of the other aggregator (hist is concatenated):
\* k adds on an empty aggregator give count k, count never falls under add,
\* and after a merge count is the sum of the two counts.
C15_CountIsNumberOfSamples ==
    \A x \in Slots :
        /\ ag[x].count = Len(hist[x])
        /\ prov[x] \in {"merged", "mixed"} => ag[x].count >= split[x]

\* a merge of an aggregator of 2 samples with one of 1 sample
C15_Witness ==
    \E x \in Slots :
        /\ prov[x] = "merged"
        /\ split[x] = 2
        /\ Len(hist[x]) = 3
        /\ ag[x].count = 3

\* C17: while Parallel::run reads the per-worker aggregators (its merge
\* loop), every worker's thread function has returned and every thread has
\* been joined; before that the destination has received nothing from them.
C17_MergeAfterAllJoined ==
    /\ (IsParallel /\ pc = "par_merge") =>
          /\ t = policy_.num_threads_
          /\ joined = policy_.num_threads_
          /\ \A w \in Workers : thr[w].st = "finished"
    /\ (IsParallel /\ pc \in {"par_spawn", "par_join"}) =>
          /\ merged = 0
          /\ agg = NewAgg(aggKind)

\* the merge loop at work on three workers, two local aggregators merged
C17_Witness ==
    /\ IsParallel /\ pc = "par_merge"
    /\ policy_.num_threads_ = 3
    /\ merged = 2
    /\ op.iterations = 3
    /\ agg.count = 2
    /\ \A w \in Workers : thr[w].st = "finished"

\* the local aggregators 0 .. k-1 merged, in index order, into an empty
\* aggregator
RECURSIVE MergeUpTo(_)
MergeUpTo(k) ==
    IF k = 0 THEN NewAgg(aggKind)
    ELSE MergeLocal(MergeUpTo(k - 1), local_aggs[k - 1])

\* C18: Parallel::run leaves the destination alone until the workers are
\* joined; from then on the destination is exactly the local aggregators
\* 0, 1, ... merged in index order into an empty aggregator, whatever the
\* destination held at the call and whatever order the workers finished in;
\* so on return it holds the samples of this run and nothing else.
C18_ResetThenMergeInOrder ==
    IsParallel =>
        /\ pc \in {"par_begin", "par_spawn", "par_join"} =>
              agg = Aggregate(aggKind, held)
        /\ pc \in {"par_merge", "run_end"} => agg = MergeUpTo(merged)
        /\ (pc = "run_end" /\ policy_.num_threads_ >= 1) =>
              /\ merged = policy_.num_threads_
              /\ agg.count = op.iterations

\* a Parallel run of 3 trials on 2 workers has returned into a destination
\* that held 2 samples at the call
C18_Witness ==
    /\ IsParallel /\ pc = "run_end"
    /\ policy_.num_threads_ = 2
    /\ Len(held) = 2
    /\ op.iterations = 3
    /\ agg.count = 3
    /\ HasMerge(aggKind)

\* worker w's thread exists and has not returned yet
Live(w) == thr[w].st \in {"ready", "running"}

\* C19: during a Parallel run each local aggregator holds exactly the values
\* its own worker added; a step that writes local aggregator w or the state
\* of live thread w (its generator, its loop counter) is a step of worker w
\* alone: it writes no other worker's aggregator or thread state, and
\* nothing the main thread or another worker reads (the destination, the
\* seeds, the engine).
C19_WorkersWriteOnlyTheirOwn ==
    /\ [](ParRunning =>
            \A w \in Workers : local_aggs[w] = Aggregate(aggKind, added[w]))
    /\ [][ParRunning =>
            \A w \in Workers :
                /\ local_aggs'[w] # local_aggs[w] =>
                      thr[w].st = "running" /\ thr'[w].i = thr[w].i + 1
                /\ (local_aggs'[w] # local_aggs[w]
                      \/ (Live(w) /\ thr'[w] # thr[w])) =>
                      /\ \A v \in Workers \ {w} :
                            local_aggs'[v] = local_aggs[v] /\ thr'[v] = thr[v]
                      /\ UNCHANGED <<agg, base_seed_, runSeed, engineVars,
                                     seqVars, t, joined, merged>>]_vars

\* two workers in the middle of their loops, each with a sample of its own
C19_Witness ==
    /\ IsParallel /\ pc = "par_join"
    /\ policy_.num_threads_ >= 2
    /\ thr[0].st = "running" /\ thr[1].st = "running"
    /\ local_aggs[0].count = 1 /\ local_aggs[1].count = 1
    /\ thr[0].i < thr[0].iters
    /\ model_ = "Uniform01"
    /\ thr[0].rng # thr[1].rng

\* C20: in a Parallel run with seed s, the generator of worker w is the one
\* make_rng(s, w) gives: seeded from s itself with stream_id = w; and the
\* generator of a Sequential run is the one make_rng(s, 0) gives.
C20_WorkerDrawsFromOwnStream ==
    /\ (IsParallel /\ ParRunning) =>
          \A w \in Workers :
              thr[w].st \in {"running", "finished"} =>
                  thr[w].rng.seq = make_rng(runSeed, w).seq
    /\ (~IsParallel /\ pc = "seq_loop") => rng.seq = make_rng(runSeed, 0).seq

\* count, mean and M2 of a WelfordAggregator
WelfordState(a) == <<a.count, a.mean, a.m2>>

\* C21: merging an empty WelfordAggregator into a leaves count, mean and M2
\* of a as they are; merging b into an empty one gives it count, mean and M2
\* of b; and a step that changes one aggregator changes no other one, so
\* the operand of a merge is left as it was.
C21_MergeWithEmptyIsIdentity ==
    /\ [](\A x, y \in Slots :
            (ag[x].kind = "welford" /\ ag[y].kind = "welford") =>
                /\ ag[y].count = 0 =>
                      WelfordState(Welford_merge(ag[x], ag[y])) = WelfordState(ag[x])
                /\ ag[x].count = 0 =>
                      WelfordState(Welford_merge(ag[x], ag[y])) = WelfordState(ag[y])
                /\ (prov[x] = "merged" /\ split[x] \in {0, Len(hist[x])}) =>
                      ag[x] = Aggregate("welford", hist[x]))
    /\ [][\A x, y \in Slots :
             (x # y /\ ag'[x] # ag[x]) => ag'[y] = ag[y]]_vars

\* one aggregator of 2 scattered samples has had an empty one merged into
\* it, and an empty one has had an aggregator of 1 sample merged into it
C21_Witness ==
    \E x, y \in Slots :
        /\ x # y
        /\ prov[x] = "merged" /\ split[x] = 2 /\ Len(hist[x]) = 2
        /\ ag[x].m2 # Zero
        /\ prov[y] = "merged" /\ split[y] = 0 /\ Len(hist[y]) = 1
        /\ ag[y].count = 1

\* C22: once a trial of a Sequential run has failed, the run is over: the
\* caller has the failure and no Result, the loop stands where it stood
\* (the trials before the failing one were added, the failing one was not
\* tried again, no later one was made), short of the requested count.
C22_SequentialFailureAborts ==
    (~IsParallel /\ IsRunCall /\ failure) =>
        /\ pc = "idle"
        /\ outcome = "threw"
        /\ i < op.iterations
        /\ Len(added[0]) = i
        /\ agg.count = i
        /\ rng.pos = i
        /\ ~wrapped_model(model_, transform_, rng).ok

\* the second of three trials has failed
C22_Witness ==
    /\ ~IsParallel /\ IsRunCall /\ failure
    /\ outcome = "threw"
    /\ op.iterations = 3
    /\ i = 1
    /\ agg.count = 1

\* the generator worker w of the run in progress started from, advanced
\* past k draws (worker 0 stands for the one worker of a Sequential run)
GenAfter(w, k) ==
    [seq |-> DefaultRngFactory(IF IsParallel THEN WorkerSeed(runSeed, w)
                               ELSE runSeed).seq,
     pos |-> IF model_ = "ConstantOne" THEN 0 ELSE k]

\* C23: in a run of the engine, the j-th value a worker has added is the
\* transform applied once to the raw sample of that worker's j-th trial,
\* and the worker's aggregator holds exactly the values so obtained, under
\* Sequential and under Parallel.
C23_TransformAppliedOnce ==
    \A w \in DOMAIN added :
        /\ \A j \in 1 .. Len(added[w]) :
              added[w][j] =
                  ApplyTransform(transform_,
                                 invoke_model(model_, GenAfter(w, j - 1)).value)
        /\ (IF IsParallel THEN local_aggs[w] ELSE agg)
              = Aggregate(aggKind, added[w])

\* a Parallel run of three trials under LinearScale(4, 0) has returned, with
\* a value above 1, which no raw sample of [0, 1) is
C23_Witness ==
    /\ Returned /\ IsParallel
    /\ transform_ = "LinearScale"
    /\ policy_.num_threads_ = 2
    /\ op.iterations = 3
    /\ \E w \in DOMAIN added :
          Len(added[w]) >= 1 /\ RLess(One, added[w][1])

\* C24: a call of Parallel::run with W >= 1 workers and a model whose
\* trials all return eventually returns to its caller, for every n >= 0.
C24_ParallelRunReturns ==
    (IsParallel /\ policy_.num_threads_ >= 1 /\ pc = "par_begin")
        ~> (pc = "run_end")

\* Parallel::run has returned from 2 trials on 3 workers, every thread
\* finished and joined
C24_Witness ==
    /\ IsParallel /\ pc = "run_end"
    /\ policy_.num_threads_ = 3
    /\ op.iterations = 2
    /\ joined = 3 /\ merged = 3
    /\ \A w \in Workers : thr[w].st = "finished"

\* C25: when the run inside simulate(iterations, seed) fails, the engine's
\* base seed is the one it had before the simulate call
C25_SeedRestoredOnFailure ==
    (pc = "idle" /\ op.name = "simulate" /\ outcome = "threw")
        => base_seed_ = entrySeed

\* C26: when simulate(n, s1) and run(n) or simulate(n, s2) are called
\* concurrently on one engine, each call hands its own seed to the policy
\* (run the configured base seed, simulate its override), and the base
\* seed is the configured one once all calls have returned
C26_ConcurrentCallsUseOwnSeed ==
    (\A c \in Callers : calls.call[c].pc = "done")
        => /\ \A c \in Callers :
                calls.call[c].runSeed =
                    IF calls.call[c].name = "simulate"
                    THEN calls.call[c].seed ELSE calls.entry
           /\ calls.base_seed_ = calls.entry

\* C27: two workers get identically seeded generators only if they are the
\* same worker index of runs with the same seed
C27_SeedingInjective ==
    (seeding.st = "seeded" /\ seeding.rng = seeding.rng2)
        => (seeding.s = seeding.s2 /\ seeding.t = seeding.t2)

\* C28: Sequential::run adds to what the caller's aggregator already holds
\* (k samples before, k + n after, in order); Parallel::run with W >= 1
\* leaves exactly the n samples of the run
C28_SequentialKeepsParallelReplaces ==
    pc = "run_end" =>
        IF IsParallel
        THEN policy_.num_threads_ >= 1 => agg.count = op.iterations
        ELSE /\ agg.count = Len(held) + op.iterations
             /\ agg = Aggregate(aggKind, held \o added[0])

C28_Witness ==
    /\ pc = "run_end"
    /\ ~IsParallel
    /\ Len(held) = 2
    /\ op.iterations = 3
    /\ agg.count = 5

\* a Parallel run of a WelfordAggregator engine with fewer trials than workers
FewerTrialsThanWorkers ==
    /\ IsParallel
    /\ IsRunCall
    /\ aggKind = "welford"
    /\ policy_.num_threads_ >= 1
    /\ op.iterations < policy_.num_threads_

\* C29: when n < W in a Parallel run, the workers with index >= n do no
\* trial and their aggregators stay empty; merging them changes nothing;
\* the destination holds exactly n samples; and for n = 0 the Result has
\* estimate 0, variance 0, standard_error 0 and iterations 0
C29_IdleWorkersChangeNothing ==
    /\ [](/\ (FewerTrialsThanWorkers
               /\ pc \in {"par_spawn", "par_join", "par_merge", "run_end"})
              => \A w \in Workers :
                     w >= op.iterations
                        => /\ thr[w].iters = 0
                           /\ thr[w].i = 0
                           /\ added[w] = <<>>
                           /\ local_aggs[w] = NewAgg(aggKind)
          /\ (FewerTrialsThanWorkers /\ pc = "run_end")
              => agg.count = op.iterations
          /\ (FewerTrialsThanWorkers /\ Returned /\ op.iterations = 0)
              => /\ result.estimate = Zero
                 /\ result.variance = Zero
                 /\ result.standard_error = Zero
                 /\ result.iterations = 0)
    /\ [][(/\ FewerTrialsThanWorkers
           /\ pc = "par_merge"
           /\ merged' = merged + 1
           /\ merged >= op.iterations)
          => agg' = agg]_vars

C29_Witness ==
    /\ FewerTrialsThanWorkers
    /\ pc = "run_end"
    /\ policy_.num_threads_ = 3
    /\ op.iterations = 1
    /\ merged = 3
    /\ agg.count = 1
    /\ local_aggs[2].count = 0

\* C30: after any sequence of add, merge and reset calls on
\* WelfordAggregators, m2 is a finite number >= 0, variance() is not
\* negative and std_error() is a number >= 0
C30_M2NeverNegative ==
    \A x \in Slots :
        ag[x].kind = "welford"
            => /\ IsFinite(ag[x].m2)
               /\ ~RLess(ag[x].m2, Zero)
               /\ IsFinite(Welford_variance(ag[x]))
               /\ ~RLess(Welford_variance(ag[x]), Zero)
               /\ IsFinite(Welford_std_error(ag[x]))
               /\ ~RLess(Welford_std_error(ag[x]), Zero)

C30_Witness ==
    /\ prov[1] = "mixed"
    /\ prov[2] = "resetMerged"
    /\ ag[1].kind = "welford"
    /\ ag[1].count >= 3
    /\ RLess(Zero, ag[1].m2)
    /\ RLess(Zero, Welford_std_error(ag[1]))

====
